---- MODULE Spec2Model ----
(***************************************************************************)
(* Model of pdf-procuracion (src/src/main.rs): the per-page field          *)
(* extractors and the page loop of procesar_pdf.                           *)
(*                                                                         *)
(* A Rust String is modelled as a sequence of characters.  A character is  *)
(* a one-element TLA+ string; the non-ASCII characters the program can     *)
(* meet are named by their code point ("U+00E9").  Rust's str::len() is    *)
(* the UTF-8 byte length, chars().count() the sequence length.             *)
(***************************************************************************)
EXTENDS Integers, Sequences, FiniteSets, TLC

VARIABLES doc, estado, p, lista_datos, origen, texto, resultado, traza

vars == <<doc, estado, p, lista_datos, origen, texto, resultado, traza>>

----------------------------------------------------------------------------
(* Characters *)

EAguda == "U+00E9"      \* e with acute accent: 2 bytes, alphabetic
EAgudaMay == "U+00C9"   \* its uppercase
Grado == "U+00B0"       \* degree sign: 2 bytes, a symbol (not alphanumeric)
Ordinal == "U+00BA"     \* masculine ordinal indicator: 2 bytes, alphabetic
DigitoArabe == "U+0663" \* ARABIC-INDIC DIGIT THREE: 2 bytes, decimal digit
NuevaLinea == "\n"

AsciiDigitos == {"0", "1", "2", "3", "4", "5", "6", "7", "8", "9"}

Minusculas ==
  <<"a", "b", "c", "d", "e", "f", "g", "h", "i", "j", "k", "l", "m",
    "n", "o", "p", "q", "r", "s", "t", "u", "v", "w", "x", "y", "z">>

Mayusculas ==
  <<"A", "B", "C", "D", "E", "F", "G", "H", "I", "J", "K", "L", "M",
    "N", "O", "P", "Q", "R", "S", "T", "U", "V", "W", "X", "Y", "Z">>

Rango(s) == {s[i] : i \in DOMAIN s}

NoAscii == {EAguda, EAgudaMay, Grado, Ordinal, DigitoArabe}

\* char::is_ascii
is_ascii(c) == c \notin NoAscii

\* char::is_ascii_digit
is_ascii_digit(c) == c \in AsciiDigitos

\* regex \d (Unicode mode, the default of the regex crate): any decimal digit
EsDigito(c) == c \in AsciiDigitos \cup {DigitoArabe}

\* the characters of the model with the Unicode property Alphabetic or a
\* numeric general category
Alfanumericos ==
  AsciiDigitos \cup Rango(Minusculas) \cup Rango(Mayusculas)
    \cup {EAguda, EAgudaMay, Ordinal, DigitoArabe}

\* char::is_alphanumeric
is_alphanumeric(c) == c \in Alfanumericos

\* char::is_whitespace and regex \s
is_whitespace(c) == c \in {" ", NuevaLinea}

\* UTF-8 encoded size of a character
BytesDe(c) == IF is_ascii(c) THEN 1 ELSE 2

\* the uppercase of each character that has one
TablaMayusculas ==
  [c \in Rango(Minusculas) \cup {EAguda} |->
     IF c = EAguda THEN EAgudaMay
     ELSE Mayusculas[CHOOSE i \in DOMAIN Minusculas : Minusculas[i] = c]]

\* char::to_uppercase
MayusculaDe(c) == IF c \in DOMAIN TablaMayusculas THEN TablaMayusculas[c] ELSE c

----------------------------------------------------------------------------
(* Strings *)

Min(S) == CHOOSE x \in S : \A y \in S : x <= y

\* str::len(): the length in bytes
ByteLen(s) == Len(s) + Len(SelectSeq(s, LAMBDA c : BytesDe(c) = 2))

\* the byte offset at which the character s[i] starts (0-based)
ByteOffset(s, i) == ByteLen(SubSeq(s, 1, i - 1))

\* the byte offset b is a character boundary of s (str::is_char_boundary)
is_char_boundary(s, b) ==
  \E i \in 1..(Len(s) + 1) : ByteOffset(s, i) = b

\* &s[..b] for a byte offset b that is a character boundary
PrefijoBytes(s, b) ==
  SubSeq(s, 1, (CHOOSE i \in 1..(Len(s) + 1) : ByteOffset(s, i) = b) - 1)

\* &s[b..] for a byte offset b that is a character boundary
SufijoBytes(s, b) ==
  SubSeq(s, CHOOSE i \in 1..(Len(s) + 1) : ByteOffset(s, i) = b, Len(s))

\* pat occurs in s at position i
EstaEn(s, pat, i) ==
  /\ i >= 1
  /\ i + Len(pat) - 1 <= Len(s)
  /\ \A k \in 1..Len(pat) : s[i + k - 1] = pat[k]

\* str::contains
contains(s, pat) == \E i \in 1..Len(s) : EstaEn(s, pat, i)

\* str::ends_with
ends_with(s, pat) == Len(s) >= Len(pat) /\ EstaEn(s, pat, Len(s) - Len(pat) + 1)

\* the leftmost non-overlapping occurrences among the match starts M of a
\* pattern of length n, scanning from position desde
RECURSIVE NoSolapadas(_, _, _)
NoSolapadas(M, n, desde) ==
  LET R == {i \in M : i >= desde}
  IN  IF R = {} THEN <<>>
      ELSE <<Min(R)>> \o NoSolapadas(M, n, Min(R) + n)

\* s with the occurrences starting at the ordered positions ps (each of
\* length n) replaced by rep; desde is the first position not yet copied
RECURSIVE Sustituir(_, _, _, _, _)
Sustituir(s, ps, n, rep, desde) ==
  IF ps = <<>> THEN SubSeq(s, desde, Len(s))
  ELSE SubSeq(s, desde, Head(ps) - 1) \o rep
         \o Sustituir(s, Tail(ps), n, rep, Head(ps) + n)

\* every non-overlapping match of a fixed-length pattern (match starts M,
\* length n) replaced by rep, left to right
ReemplazarEn(s, M, n, rep) ==
  IF M = {} THEN s
  ELSE Sustituir(s, NoSolapadas(M, n, 1), n, rep, 1)

\* str::replace(pat, rep)
replace(s, pat, rep) ==
  ReemplazarEn(s, {i \in 1..Len(s) : EstaEn(s, pat, i)}, Len(pat), rep)

\* str::replace(c, ""): remove every occurrence of one character
Quitar(s, c) == SelectSeq(s, LAMBDA d : d # c)

\* str::matches(pat).count()
ContarOcurrencias(s, pat) ==
  Len(NoSolapadas({i \in 1..Len(s) : EstaEn(s, pat, i)}, Len(pat), 1))

\* str::replacen(pat, rep, 1): the first occurrence only
replacen1(s, pat, rep) ==
  LET M == {i \in 1..Len(s) : EstaEn(s, pat, i)}
  IN  IF M = {} THEN s
      ELSE Sustituir(s, <<Min(M)>>, Len(pat), rep, 1)

\* str::to_uppercase
to_uppercase(s) == [i \in DOMAIN s |-> MayusculaDe(s[i])]

----------------------------------------------------------------------------
(* Numbers *)

Cifras == <<"0", "1", "2", "3", "4", "5", "6", "7", "8", "9">>

DigitoDe(c) == (CHOOSE n \in DOMAIN Cifras : Cifras[n] = c) - 1

RECURSIVE ValorDe(_)
ValorDe(s) ==
  IF s = <<>> THEN 0
  ELSE 10 * ValorDe(SubSeq(s, 1, Len(s) - 1)) + DigitoDe(s[Len(s)])

RECURSIVE DigitosDe(_)
DigitosDe(n) ==
  IF n < 10 THEN <<Cifras[n + 1]>>
  ELSE DigitosDe(n \div 10) \o <<Cifras[(n % 10) + 1]>>

\* usize::to_string / i32::to_string of a non-negative number
to_string(n) == DigitosDe(n)

SoloAscii(s) == \A i \in DOMAIN s : is_ascii_digit(s[i])

\* a digit string without its leading zeros (one digit is always kept)
RECURSIVE SinCeros(_)
SinCeros(s) ==
  IF Len(s) > 1 /\ Head(s) = "0" THEN SinCeros(Tail(s)) ELSE s

\* the largest u64, 18446744073709551615, as a digit string
U64Max ==
  <<"1", "8", "4", "4", "6", "7", "4", "4", "0", "7",
    "3", "7", "0", "9", "5", "5", "1", "6", "1", "5">>

\* a <= b for digit strings of the same length
MenorOIgual(a, b) ==
  \/ a = b
  \/ \E i \in DOMAIN a :
       /\ DigitoDe(a[i]) < DigitoDe(b[i])
       /\ \A k \in 1..(i - 1) : a[k] = b[k]

\* str::parse::<u64>() followed by Display: an optional '+', then ASCII
\* digits only, the value at most u64::MAX.  The number is kept as the
\* decimal string format!("{}", n) prints, so that no width is lost.
ParseU64(s) ==
  LET d == IF s # <<>> /\ Head(s) = "+" THEN Tail(s) ELSE s
      c == SinCeros(d)
  IN  IF d # <<>> /\ SoloAscii(d)
         /\ (Len(c) < Len(U64Max) \/ (Len(c) = Len(U64Max) /\ MenorOIgual(c, U64Max)))
        THEN [ok |-> TRUE, num |-> c]
        ELSE [ok |-> FALSE, num |-> <<>>]

\* str::parse::<i32>() of a string of at most 4 characters: an optional
\* sign, then ASCII digits only (no overflow at this length)
ParseI32Corto(s) ==
  LET signo == s # <<>> /\ Head(s) \in {"+", "-"}
      d == IF signo THEN Tail(s) ELSE s
  IN  IF d # <<>> /\ SoloAscii(d)
        THEN [ok |-> TRUE, v |-> IF signo /\ Head(s) = "-" THEN 0 - ValorDe(d) ELSE ValorDe(d)]
        ELSE [ok |-> FALSE, v |-> 0]

----------------------------------------------------------------------------
(* extraer_texto_entre_comillas *)

Comilla == "\""

Autos == <<"a", "u", "t", "o", "s">>

UtSupra == <<"u", "t", "-", "s", "u", "p", "r", "a">>

UtSupraEspacio == <<"u", "t", " ", "-", "s", "u", "p", "r", "a">>

\* the set the code calls eliminar_palabras
eliminar_palabras == {UtSupra, UtSupraEspacio}

\* first position >= i whose character is not whitespace (Len+1 if none)
FinEspacios(s, i) ==
  Min({k \in i..(Len(s) + 1) : k = Len(s) + 1 \/ ~is_whitespace(s[k])})

\* first position >= i holding the character c (0 if none)
Primero(s, c, i) ==
  LET R == {k \in i..Len(s) : s[k] = c}
  IN  IF R = {} THEN 0 ELSE Min(R)

\* the regex autos\s+"(.*?)" matches at position i; the result is
\* [ok, ini, fin]: the capture is s[ini..fin], the match ends at fin+1
CoincideAutos(s, i) ==
  LET e == i + Len(Autos)
      q == FinEspacios(s, e)
      c == IF q <= Len(s) /\ s[q] = Comilla THEN Primero(s, Comilla, q + 1) ELSE 0
  IN  IF /\ EstaEn(s, Autos, i)
         /\ q > e
         /\ c > 0
         /\ \A k \in (q + 1)..(c - 1) : s[k] # NuevaLinea
        THEN [ok |-> TRUE, ini |-> q + 1, fin |-> c - 1]
        ELSE [ok |-> FALSE, ini |-> 0, fin |-> 0]

\* captures_iter: the captures of the successive non-overlapping matches
RECURSIVE CapturasAutos(_, _, _)
CapturasAutos(s, M, desde) ==
  LET R == {i \in M : i >= desde}
  IN  IF R = {} THEN <<>>
      ELSE LET m == CoincideAutos(s, Min(R))
           IN  <<SubSeq(s, m.ini, m.fin)>> \o CapturasAutos(s, M, m.fin + 2)

\* the vector the code calls coincidencias: the captures that are not in
\* eliminar_palabras
Coincidencias(s) ==
  SelectSeq(CapturasAutos(s, {i \in 1..Len(s) : CoincideAutos(s, i).ok}, 1),
            LAMBDA c : c \notin eliminar_palabras)

extraer_texto_entre_comillas(s, pp) ==
  LET coincidencias == Coincidencias(s)
  IN  IF coincidencias = <<>> THEN to_string(pp + 1) ELSE coincidencias[1]

----------------------------------------------------------------------------
(* extraer_monto *)

\* the value standing for a panic of the thread (a slice index that is not
\* a character boundary); it is no string of characters
Panico == <<"!panic">>

ParenEspacioDolar == <<"(", " ", "$">>

ParenDolar == <<"(", "$">>

PuntoGuion == <<".", "-">>

LargoMinimoMonto == 3

\* the regex \(\$([^)]+)\) matches at position i: [ok, ini, fin], the
\* capture being s[ini..fin]
CoincideMonto(s, i) ==
  LET c == Primero(s, ")", i + 2)
  IN  IF EstaEn(s, ParenDolar, i) /\ c > i + 2
        THEN [ok |-> TRUE, ini |-> i + 2, fin |-> c - 1]
        ELSE [ok |-> FALSE, ini |-> 0, fin |-> 0]

\* patron.captures(&texto): the capture of the leftmost match
CapturaMonto(s) ==
  LET M == {i \in 1..Len(s) : CoincideMonto(s, i).ok}
  IN  IF M = {} THEN [ok |-> FALSE, cap |-> <<>>]
      ELSE LET m == CoincideMonto(s, Min(M))
           IN  [ok |-> TRUE, cap |-> SubSeq(s, m.ini, m.fin)]

\* "Limpiar terminaciones": a trailing ".-" or a trailing "." is cut
LimpiarTerminacion(monto) ==
  IF ends_with(monto, PuntoGuion) THEN PrefijoBytes(monto, ByteLen(monto) - 2)
  ELSE IF ends_with(monto, <<".">>) THEN PrefijoBytes(monto, ByteLen(monto) - 1)
  ELSE monto

\* chars.get(len.saturating_sub(3)).cloned().unwrap_or(' ')
TercerDesdeFinal(monto) ==
  LET len == Len(monto)
      idx == IF len >= 3 THEN len - 3 ELSE 0
  IN  IF idx < len THEN monto[idx + 1] ELSE " "

\* format!("{}.{}", parte_entera.replace(sep, ""), parte_decimal), the two
\* parts being byte slices of monto: &monto[..len-3] and &monto[len-2..]
DosDecimales(monto, sep) ==
  LET n == ByteLen(monto)
  IN  IF is_char_boundary(monto, n - 2) /\ is_char_boundary(monto, n - 3)
        THEN Quitar(PrefijoBytes(monto, n - 3), sep) \o <<".">> \o SufijoBytes(monto, n - 2)
        ELSE Panico

\* "Caso: 1.234.567 o 1,234,567 -> entero"
RamaEntero(monto) ==
  [i \in DOMAIN Quitar(monto, ".") |->
     IF Quitar(monto, ".")[i] = "," THEN "." ELSE Quitar(monto, ".")[i]]

\* the four-way separator branch of extraer_monto
Separadores(monto) ==
  LET tercer_desde_final == TercerDesdeFinal(monto)
      num_puntos == Len(SelectSeq(monto, LAMBDA c : c = "."))
      num_comas == Len(SelectSeq(monto, LAMBDA c : c = ","))
  IN  IF tercer_desde_final = "." /\ num_puntos > 1 THEN DosDecimales(monto, ".")
      ELSE IF tercer_desde_final = "." THEN Quitar(monto, ",")
      ELSE IF tercer_desde_final = "," /\ num_comas > 1 THEN DosDecimales(monto, ",")
      ELSE RamaEntero(monto)

\* NormalizarParen without the replacement of "( $"
NormalizarParenNada(s) == s

\* the text in which the amount pattern is searched
NormalizarParen(s) == replace(s, ParenEspacioDolar, ParenDolar)

\* the amount once '$' and ' ' are removed and the ending is cleaned
MontoLimpio(cap) == LimpiarTerminacion(Quitar(Quitar(cap, "$"), " "))

extraer_monto(s, pp) ==
  LET coincidencia == CapturaMonto(NormalizarParen(s))
      monto == MontoLimpio(coincidencia.cap)
  IN  IF ~coincidencia.ok THEN to_string(pp + 1)
      ELSE IF ByteLen(monto) < LargoMinimoMonto THEN monto
      ELSE Separadores(monto)

----------------------------------------------------------------------------
(* extraer_numero_cheque *)

ChequeNro == <<"C", "h", "e", "q", "u", "e", "N", "r", "o">>

ChequeNGrado == <<"C", "h", "e", "q", "u", "e", "N", Grado>>

ItbN == <<"I", "T", "B", "N", Ordinal, ":">>

Interno == <<"I", "N", "T", "E", "R", "N", "O", ":">>

MarcaMEP == <<"M", ".", "E", ".", "P", ".">>

PrefijoCH == <<"C", "H", " ">>

PrefijoITB == <<"I", "T", "B", " ">>

PrefijoMEP == <<"M", "E", "P", " ">>

\* the list the code calls patrones_cheque, in its order
patrones_cheque == <<ChequeNro, ChequeNGrado>>

DigitosCheque == 8

SufijoInterno == 4

\* the regex <lit>(\d+) matches at position i
CoincideNumero(s, lit, i) ==
  /\ EstaEn(s, lit, i)
  /\ i + Len(lit) <= Len(s)
  /\ EsDigito(s[i + Len(lit)])

\* first position >= i whose character is no digit of \d (Len+1 if none)
FinDigitos(s, i) ==
  Min({k \in i..(Len(s) + 1) : k = Len(s) + 1 \/ ~EsDigito(s[k])})

\* patron.captures(&texto_limpio) and caps.get(1): the digit run captured
\* by the leftmost match of <lit>(\d+)
CapturaNumero(s, lit) ==
  LET M == {i \in 1..Len(s) : CoincideNumero(s, lit, i)}
  IN  IF M = {} THEN [ok |-> FALSE, cap |-> <<>>]
      ELSE LET d == Min(M) + Len(lit)
           IN  [ok |-> TRUE, cap |-> SubSeq(s, d, FinDigitos(s, d) - 1)]

Nada == [tipo |-> "nada", v |-> <<>>]

Valor(v) == [tipo |-> "valor", v |-> v]

Aborta == [tipo |-> "panico", v |-> Panico]

\* the body of the loop over patrones_cheque for one pattern
ReglaChequeUna(limpio, lit) ==
  LET c == CapturaNumero(limpio, lit)
  IN  IF ~c.ok \/ ByteLen(c.cap) < DigitosCheque THEN Nada
      ELSE IF ~is_char_boundary(c.cap, DigitosCheque) THEN Aborta
      ELSE LET n == ParseU64(PrefijoBytes(c.cap, DigitosCheque))
           IN  IF n.ok THEN Valor(PrefijoCH \o n.num) ELSE Nada

\* the loop over patrones_cheque: the first pattern that returns
RECURSIVE ReglaChequeDesde(_, _)
ReglaChequeDesde(limpio, k) ==
  IF k > Len(patrones_cheque) THEN Nada
  ELSE LET r == ReglaChequeUna(limpio, patrones_cheque[k])
       IN  IF r.tipo = "nada" THEN ReglaChequeDesde(limpio, k + 1) ELSE r

ReglaCheque(limpio) == ReglaChequeDesde(limpio, 1)

\* "Buscar ITBNº:"
ReglaITB(limpio) ==
  LET c == CapturaNumero(limpio, ItbN)
      n == ParseU64(c.cap)
  IN  IF c.ok /\ n.ok THEN Valor(PrefijoITB \o n.num) ELSE Nada

\* ReglaInterno with the marker M.E.P. looked up in the stripped text
ReglaInternoMarcaLimpia(s, limpio) ==
  LET c == CapturaNumero(limpio, Interno)
      corte == ByteLen(c.cap) - SufijoInterno
  IN  IF ~c.ok \/ ByteLen(c.cap) <= SufijoInterno THEN Nada
      ELSE IF ~is_char_boundary(c.cap, corte) THEN Aborta
      ELSE LET n == ParseU64(PrefijoBytes(c.cap, corte))
           IN  IF ~n.ok THEN Nada
               ELSE IF contains(limpio, MarcaMEP) THEN Valor(PrefijoMEP \o n.num)
               ELSE Valor(PrefijoITB \o n.num)

\* "Buscar INTERNO:"; s is the text as given, limpio the stripped text
ReglaInterno(s, limpio) ==
  LET c == CapturaNumero(limpio, Interno)
      corte == ByteLen(c.cap) - SufijoInterno
  IN  IF ~c.ok \/ ByteLen(c.cap) <= SufijoInterno THEN Nada
      ELSE IF ~is_char_boundary(c.cap, corte) THEN Aborta
      ELSE LET n == ParseU64(PrefijoBytes(c.cap, corte))
           IN  IF ~n.ok THEN Nada
               ELSE IF contains(s, MarcaMEP) THEN Valor(PrefijoMEP \o n.num)
               ELSE Valor(PrefijoITB \o n.num)

\* texto.replace('.', "").replace('-', "").replace(' ', "")
TextoLimpio(s) == Quitar(Quitar(Quitar(s, "."), "-"), " ")

\* SalidaCheque with the ITBNº: rule tried before the Cheque rule
SalidaChequeITBPrimero(s, pp) ==
  LET texto_limpio == TextoLimpio(s)
      ch == ReglaCheque(texto_limpio)
      itb == ReglaITB(texto_limpio)
      int == ReglaInterno(s, texto_limpio)
  IN  IF itb.tipo # "nada" THEN [regla |-> "itb", v |-> itb.v]
      ELSE IF ch.tipo # "nada" THEN [regla |-> "cheque", v |-> ch.v]
      ELSE IF int.tipo # "nada" THEN [regla |-> "interno", v |-> int.v]
      ELSE [regla |-> "ninguna", v |-> to_string(pp + 1)]

\* the return statement that ends extraer_numero_cheque on text s: the
\* rule it belongs to and the value returned
SalidaCheque(s, pp) ==
  LET texto_limpio == TextoLimpio(s)
      ch == ReglaCheque(texto_limpio)
      itb == ReglaITB(texto_limpio)
      int == ReglaInterno(s, texto_limpio)
  IN  IF ch.tipo # "nada" THEN [regla |-> "cheque", v |-> ch.v]
      ELSE IF itb.tipo # "nada" THEN [regla |-> "itb", v |-> itb.v]
      ELSE IF int.tipo # "nada" THEN [regla |-> "interno", v |-> int.v]
      ELSE [regla |-> "ninguna", v |-> to_string(pp + 1)]

extraer_numero_cheque(s, pp) == SalidaCheque(s, pp).v

----------------------------------------------------------------------------
(* extraer_expediente_y_año (the identifiers below write anio) *)

Expediente == <<"e", "x", "p", "e", "d", "i", "e", "n", "t", "e">>

ExptePunto == <<"e", "x", "p", "t", "e", ".">>

EXPGuion == <<"E", "X", "P", "-">>

EJFGuion == <<"E", "J", "F", "-">>

EXP == <<"E", "X", "P">>

EJF == <<"E", "J", "F">>

EXPPunto == <<"E", "X", "P", ".">>

EXPPuntoNro == <<"E", "X", "P", ".", " ", "N", "r", "o", ".">>

NOrdinal == <<"N", Ordinal>>

NGrado == <<"N", Grado>>

NROPunto == <<"N", "R", "O", ".">>

SinAnio == <<" ">>

LargoMaximo == 30

LargoCorte == 25

AnioMinimo == 1990

AnioMaximo == 2025

\* pat occurs in s at position i, letters compared without case ((?i) and
\* the classes [Ee][Xx][Pp]); pat has no letter with a non-ASCII case fold
EstaEnSinCaso(s, pat, i) ==
  /\ i >= 1
  /\ i + Len(pat) - 1 <= Len(s)
  /\ \A k \in 1..Len(pat) :
       /\ is_ascii(s[i + k - 1])
       /\ MayusculaDe(s[i + k - 1]) = MayusculaDe(pat[k])

\* Regex::replace_all of a case-insensitive literal
ReemplazarSinCaso(s, pat, rep) ==
  ReemplazarEn(s, {i \in 1..Len(s) : EstaEnSinCaso(s, pat, i)}, Len(pat), rep)

\* "Normalizar texto"
NormalizarExpediente(s) ==
  ReemplazarSinCaso(ReemplazarSinCaso(s, Expediente, EXPGuion), ExptePunto, EXPGuion)

\* the regex <pre><sep>[^,]*, matches at position i; the match ends at the
\* first comma after the separator: [ok, fin]
CoincidePrefijo(s, pre, sep, i) ==
  LET c == Primero(s, ",", i + Len(pre) + 1)
  IN  IF /\ EstaEnSinCaso(s, pre, i)
         /\ i + Len(pre) <= Len(s)
         /\ s[i + Len(pre)] = sep
         /\ c > 0
        THEN [ok |-> TRUE, fin |-> c]
        ELSE [ok |-> FALSE, fin |-> 0]

\* the regex \d{4,6}<sep>\d{4} matches at position i with k leading digits
CoincideNumeroAnio(s, sep, i, k) ==
  /\ i + k + 4 <= Len(s)
  /\ \A j \in i..(i + k - 1) : EsDigito(s[j])
  /\ s[i + k] = sep
  /\ \A j \in (i + k + 1)..(i + k + 4) : EsDigito(s[j])

\* the leftmost match of pattern number n of patrones_expediente in s
BuscarPatron(s, n) ==
  IF n \in {1, 2, 3, 6}
    THEN LET pre == IF n = 6 THEN EJF ELSE EXP
             sep == IF n = 2 THEN "." ELSE IF n = 3 THEN " " ELSE "-"
             M == {i \in 1..Len(s) : CoincidePrefijo(s, pre, sep, i).ok}
         IN  IF M = {} THEN [ok |-> FALSE, m |-> <<>>]
             ELSE [ok |-> TRUE,
                   m |-> SubSeq(s, Min(M), CoincidePrefijo(s, pre, sep, Min(M)).fin)]
    ELSE LET sep == IF n = 4 THEN "-" ELSE "/"
             M == {i \in 1..Len(s) : \E k \in 4..6 : CoincideNumeroAnio(s, sep, i, k)}
         IN  IF M = {} THEN [ok |-> FALSE, m |-> <<>>]
             ELSE LET k == CHOOSE k \in 4..6 : CoincideNumeroAnio(s, sep, Min(M), k)
                  IN  [ok |-> TRUE, m |-> SubSeq(s, Min(M), Min(M) + k + 4)]

NumPatrones == 6

\* the loop over patrones_expediente: the first pattern that matches, its
\* match uppercased and without spaces: [ok, patron, exp]
RECURSIVE BuscarDesde(_, _)
BuscarDesde(s, n) ==
  IF n > NumPatrones THEN [ok |-> FALSE, patron |-> 0, exp |-> <<>>]
  ELSE LET r == BuscarPatron(s, n)
       IN  IF r.ok
             THEN [ok |-> TRUE, patron |-> n, exp |-> Quitar(to_uppercase(r.m), " ")]
             ELSE BuscarDesde(s, n + 1)

BuscarExpediente(s) == BuscarDesde(NormalizarExpediente(s), 1)

PatronEspacio == 3

\* "Para el caso de EXP #### y no EXP-####"
QuitarEXP(b) ==
  IF b.patron = PatronEspacio THEN replace(b.exp, EXP, <<>>) ELSE b.exp

\* Acortar with the cut length as its threshold
AcortarDesdeCorte(e) == IF Len(e) > LargoCorte THEN SubSeq(e, 1, LargoCorte) ELSE e

\* "Acortar si es muy largo"
Acortar(e) == IF Len(e) > LargoMaximo THEN SubSeq(e, 1, LargoCorte) ELSE e

\* "Buscar el último dígito": cut after the last ASCII digit, if there is one
Recortar(e) ==
  LET D == {i \in DOMAIN e : is_ascii_digit(e[i])}
  IN  IF D = {} THEN e ELSE SubSeq(e, 1, CHOOSE i \in D : \A j \in D : j <= i)

\* ExtraerAnio with a range that ends one year later
ExtraerAnioRangoLargo(e) ==
  LET n == Len(e)
      a == IF n >= 4 THEN ParseI32Corto(SubSeq(e, n - 3, n)) ELSE [ok |-> FALSE, v |-> 0]
  IN  IF a.ok /\ a.v >= AnioMinimo /\ a.v <= AnioMaximo + 1
        THEN [anio |-> to_string(a.v),
              exp |-> IF n >= 5 THEN SubSeq(e, 1, n - 5) ELSE e]
        ELSE [anio |-> SinAnio, exp |-> e]

\* "Extraer año": [año, exp] from the trimmed case reference
ExtraerAnio(e) ==
  LET n == Len(e)
      a == IF n >= 4 THEN ParseI32Corto(SubSeq(e, n - 3, n)) ELSE [ok |-> FALSE, v |-> 0]
  IN  IF a.ok /\ a.v >= AnioMinimo /\ a.v <= AnioMaximo
        THEN [anio |-> to_string(a.v),
              exp |-> IF n >= 5 THEN SubSeq(e, 1, n - 5) ELSE e]
        ELSE [anio |-> SinAnio, exp |-> e]

\* "Limpiar expediente": the chain of replace calls and the trailing '-'
Limpiar(e) ==
  LET r == replace(replace(replace(replace(replace(e,
             EXPPuntoNro, EXPGuion), NOrdinal, <<>>), NGrado, <<>>),
             EXPPunto, EXPGuion), NROPunto, <<>>)
  IN  IF ends_with(r, <<"-">>) THEN SubSeq(r, 1, Len(r) - 1) ELSE r

\* the canonical prefix: a duplicated EXP- loses its first occurrence, a
\* reference with neither EXP- nor EJF- gets EXP- in front
Prefijar(e) ==
  IF ContarOcurrencias(e, EXPGuion) > 1 THEN replacen1(e, EXPGuion, <<>>)
  ELSE IF ~contains(e, EXPGuion) /\ ~contains(e, EJFGuion) THEN EXPGuion \o e
  ELSE e

\* the steps after the pattern search, for a search result b that matched
DespuesDeBuscar(b) ==
  LET a == ExtraerAnio(Recortar(Acortar(QuitarEXP(b))))
  IN  <<Prefijar(Limpiar(a.exp)), a.anio>>

extraer_expediente_y_anio(s, pp) ==
  LET b == BuscarExpediente(s)
  IN  IF ~b.ok THEN <<to_string(pp + 1), SinAnio>> ELSE DespuesDeBuscar(b)

----------------------------------------------------------------------------
(* procesar_pdf *)

LargoMinimoPagina == 500

\* "Limpiar el texto": newlines become spaces, then only the characters
\* that are ASCII, alphanumeric or whitespace are kept
Sanear(raw) ==
  SelectSeq([i \in DOMAIN raw |-> IF raw[i] = NuevaLinea THEN " " ELSE raw[i]],
            LAMBDA c : is_ascii(c) \/ is_alphanumeric(c) \/ is_whitespace(c))

\* "Saltar páginas con menos de 500 caracteres": the test of the code
PaginaOmitida(t) == ByteLen(t) < LargoMinimoPagina

\* the four extractor calls on the sanitized text t of the page at index pp
DatosPagina(t, pp) ==
  LET ea == extraer_expediente_y_anio(t, pp)
  IN  [nombre |-> extraer_texto_entre_comillas(t, pp),
       expediente |-> ea[1],
       anio |-> ea[2],
       monto |-> extraer_monto(t, pp),
       cheque |-> extraer_numero_cheque(t, pp)]

\* one of the extractor calls panics
PaginaAborta(t, pp) ==
  extraer_monto(t, pp) = Panico \/ extraer_numero_cheque(t, pp) = Panico

Pendiente == <<"!pendiente">>

SinTraza == [fn |-> "ninguna"]

\* the variables of the extractor specifications, unused by procesar_pdf
SinLlamada == texto = <<>> /\ resultado = Pendiente /\ traza = SinTraza

\* the variables of procesar_pdf, unused by the extractor specifications
SinDocumento ==
  doc = <<>> /\ estado = "ninguno" /\ lista_datos = <<>> /\ origen = <<>>

\* Document::load(ruta_archivo)? succeeds: the loop starts at the first page
Cargar ==
  /\ estado = "inicio"
  /\ estado' = "iterando"
  /\ UNCHANGED <<doc, p, lista_datos, origen, texto, resultado, traza>>

\* Document::load(ruta_archivo)? fails: the error is returned
FallaCarga ==
  /\ estado = "inicio"
  /\ estado' = "error_carga"
  /\ UNCHANGED <<doc, p, lista_datos, origen, texto, resultado, traza>>

\* doc.extract_text fails for the page: continue
FallaPagina ==
  /\ estado = "iterando"
  /\ p < Len(doc)
  /\ ~doc[p + 1].ok
  /\ p' = p + 1
  /\ UNCHANGED <<doc, estado, lista_datos, origen, texto, resultado, traza>>

\* the sanitized text is under the length gate: continue
OmitirPagina ==
  /\ estado = "iterando"
  /\ p < Len(doc)
  /\ doc[p + 1].ok
  /\ PaginaOmitida(Sanear(doc[p + 1].raw))
  /\ p' = p + 1
  /\ UNCHANGED <<doc, estado, lista_datos, origen, texto, resultado, traza>>

\* ProcesarPagina with the ordinal among the accepted pages handed to the
\* extractors in place of the index p of enumerate()
ProcesarPaginaOrdinal ==
  /\ estado = "iterando"
  /\ p < Len(doc)
  /\ doc[p + 1].ok
  /\ LET t == Sanear(doc[p + 1].raw)
     IN  /\ ~PaginaOmitida(t)
         /\ ~PaginaAborta(t, p)
         /\ lista_datos' = Append(lista_datos, DatosPagina(t, Len(lista_datos)))
  /\ origen' = Append(origen, p)
  /\ p' = p + 1
  /\ UNCHANGED <<doc, estado, texto, resultado, traza>>

\* the page is accepted and its record is pushed
ProcesarPagina ==
  /\ estado = "iterando"
  /\ p < Len(doc)
  /\ doc[p + 1].ok
  /\ LET t == Sanear(doc[p + 1].raw)
     IN  /\ ~PaginaOmitida(t)
         /\ ~PaginaAborta(t, p)
         /\ lista_datos' = Append(lista_datos, DatosPagina(t, p))
  /\ origen' = Append(origen, p)
  /\ p' = p + 1
  /\ UNCHANGED <<doc, estado, texto, resultado, traza>>

\* the page is accepted and an extractor panics: the thread unwinds
AbortarPagina ==
  /\ estado = "iterando"
  /\ p < Len(doc)
  /\ doc[p + 1].ok
  /\ LET t == Sanear(doc[p + 1].raw)
     IN  ~PaginaOmitida(t) /\ PaginaAborta(t, p)
  /\ estado' = "panico"
  /\ UNCHANGED <<doc, p, lista_datos, origen, texto, resultado, traza>>

\* the loop is over: Ok(lista_datos)
Terminar ==
  /\ estado = "iterando"
  /\ p = Len(doc)
  /\ estado' = "hecho"
  /\ UNCHANGED <<doc, p, lista_datos, origen, texto, resultado, traza>>

----------------------------------------------------------------------------
(* The documents procesar_pdf is run on *)

MaxPaginas == 2

Repetir(c, n) == [i \in 1..n |-> c]

JuanPerez == <<"J", "u", "a", "n", " ", "P", EAguda, "r", "e", "z">>

\* autos "Juan Pérez" Expediente 1234/2020, ($1,234.56) Cheque Nro. 12345678
\* (a line break after autos)
FragmentoCompleto ==
  Autos \o <<NuevaLinea, Comilla>> \o JuanPerez \o <<Comilla, " ">>
    \o <<"E", "x", "p", "e", "d", "i", "e", "n", "t", "e", " ">>
    \o <<"1", "2", "3", "4", "/", "2", "0", "2", "0", ",", " ">>
    \o <<"(", "$", "1", ",", "2", "3", "4", ".", "5", "6", ")", " ">>
    \o <<"C", "h", "e", "q", "u", "e", " ", "N", "r", "o", ".", " ">>
    \o <<"1", "2", "3", "4", "5", "6", "7", "8", " ">>

\* autos "" ($.)
FragmentoVacios ==
  Autos \o <<" ", Comilla, Comilla, " ", "(", "$", ".", ")", " ">>

\* ($1.2.é9): an amount whose last two characters are not both one byte
FragmentoMontoAncho ==
  <<"(", "$", "1", ".", "2", ".", EAguda, "9", ")", " ">>

\* a page text: the fragment, then filler up to `largo` characters, of which
\* `anchos` are two-byte letters and `simbolos` are symbols the sanitizer drops
Pagina(fragmento, largo, anchos, simbolos) ==
  [ok |-> TRUE,
   raw |-> fragmento
             \o Repetir("x", largo - Len(fragmento) - anchos - simbolos)
             \o Repetir(EAguda, anchos)
             \o Repetir(Grado, simbolos)]

PaginaFallida == [ok |-> FALSE, raw |-> <<>>]

Tamanios ==
  {<<LargoMinimoPagina - 1, 0, 0>>, <<LargoMinimoPagina, 0, 0>>,
   <<LargoMinimoPagina - 1, 1, 0>>, <<LargoMinimoPagina, 0, 1>>}

Paginas ==
  {Pagina(f, t[1], t[2], t[3]) :
     f \in {<<>>, FragmentoCompleto}, t \in Tamanios}
    \cup {Pagina(FragmentoVacios, LargoMinimoPagina, 0, 0),
          Pagina(FragmentoMontoAncho, LargoMinimoPagina, 0, 0),
          PaginaFallida}

Documentos == UNION {[1..n -> Paginas] : n \in 1..MaxPaginas}

Init ==
  /\ doc \in Documentos
  /\ estado = "inicio"
  /\ p = 0
  /\ lista_datos = <<>>
  /\ origen = <<>>
  /\ SinLlamada

Next ==
  \/ Cargar
  \/ FallaCarga
  \/ FallaPagina
  \/ OmitirPagina
  \/ ProcesarPagina
  \/ AbortarPagina
  \/ Terminar

Spec == Init /\ [][Next]_vars

----------------------------------------------------------------------------
(* Properties of procesar_pdf *)

\* the sanitized text of the page record j of lista_datos was built from
TextoDe(j) == Sanear(doc[origen[j] + 1].raw)

\* every extractor that finds no match in the text t wrote the decimal
\* string of n into its field of the record r
CentinelasSon(r, t, n) ==
  /\ Coincidencias(t) = <<>> => r.nombre = to_string(n)
  /\ ~BuscarExpediente(t).ok => r.expediente = to_string(n)
  /\ ~CapturaMonto(NormalizarParen(t)).ok => r.monto = to_string(n)
  /\ SalidaCheque(t, 0).regla = "ninguna" => r.cheque = to_string(n)

C2_CamposNoVacios ==
  \A j \in DOMAIN lista_datos :
    /\ lista_datos[j].nombre # <<>>
    /\ lista_datos[j].expediente # <<>>
    /\ lista_datos[j].anio # <<>>
    /\ lista_datos[j].monto # <<>>
    /\ lista_datos[j].cheque # <<>>

\* C3: a page whose text was retrieved and that the loop has passed has a
\* record exactly when its sanitized text has at least 500 characters.
C3_PuertaPorCaracteres ==
  \A i \in 0..(p - 1) :
    doc[i + 1].ok =>
      ((\E j \in DOMAIN origen : origen[j] = i)
         <=> Len(Sanear(doc[i + 1].raw)) >= LargoMinimoPagina)

\* C7: once the document is loaded no extractor aborts the processing: the
\* loop never ends in a panic, and when it has ended every page was visited
\* and the records are in increasing page order.
C7_NuncaAborta ==
  /\ estado # "panico"
  /\ estado = "hecho" => p = Len(doc)
  /\ \A i, j \in DOMAIN origen : i < j => origen[i] < origen[j]

----------------------------------------------------------------------------
(* extraer_monto called on its own *)

MaxEspacios == 2

MaxGrupos == 2

SeqHasta(S, n) == UNION {[1..k -> S] : k \in 0..n}

RECURSIVE Aplanar(_)
Aplanar(ss) == IF ss = <<>> THEN <<>> ELSE Head(ss) \o Aplanar(Tail(ss))

GruposMonto ==
  {<<sep>> \o g : sep \in {".", ","},
                  g \in {<<"2", "3", "4">>, <<"5", "6", "7">>, <<"5", "6">>, <<EAguda, "9">>}}

\* ( <spaces> $ <amount> ): an amount of separated digit groups
EntradasMonto ==
  {<<"(">> \o Repetir(" ", k) \o <<"$">> \o ini \o Aplanar(gs) \o fin \o <<")">> :
     k \in 0..MaxEspacios,
     ini \in {<<>>, <<"1">>},
     gs \in SeqHasta(GruposMonto, MaxGrupos),
     fin \in {<<>>, <<".">>, <<".", "-">>}}

InitMonto ==
  /\ texto \in EntradasMonto
  /\ p \in 0..(MaxPaginas - 1)
  /\ resultado = Pendiente
  /\ traza = SinTraza
  /\ SinDocumento

\* extraer_monto(&texto, p); traza keeps the local monto before the branch
LlamarMonto ==
  /\ resultado = Pendiente
  /\ resultado' = extraer_monto(texto, p)
  /\ traza' = LET c == CapturaMonto(NormalizarParen(texto))
              IN  [fn |-> "monto", ok |-> c.ok, monto |-> MontoLimpio(c.cap)]
  /\ UNCHANGED <<doc, estado, p, lista_datos, origen, texto>>

NextMonto == LlamarMonto

SpecMonto == InitMonto /\ [][NextMonto]_vars

----------------------------------------------------------------------------
(* extraer_numero_cheque called on its own *)

MaxPartes == 2

NumerosCheque ==
  {<<"1", "2", "3">>,
   <<"0", "0", "1", "2", "3", "4", "5", "6", "7">>,
   <<"1", "2", "3", "4", "5", "6", "7", "8", "9">>,
   <<"0", "0", "0", "0", "1", "2", "3", "4", "9", "9", "9", "9">>,
   <<"1", DigitoArabe, DigitoArabe, DigitoArabe, DigitoArabe>>,
   <<DigitoArabe, DigitoArabe, DigitoArabe, DigitoArabe>>}

\* Cheque Nro. <n> | Cheque N° <n> | ITB Nº: <n> | INTERNO: <n> | M.E.P.
PartesCheque ==
  {m \o n \o <<" ">> :
     m \in {<<"C", "h", "e", "q", "u", "e", " ", "N", "r", "o", ".", " ">>,
            <<"C", "h", "e", "q", "u", "e", " ", "N", Grado, " ">>,
            <<"I", "T", "B", " ", "N", Ordinal, ":", " ">>,
            <<"I", "N", "T", "E", "R", "N", "O", ":">>},
     n \in NumerosCheque}
    \cup {MarcaMEP \o <<" ">>}

EntradasCheque == {Aplanar(ps) : ps \in SeqHasta(PartesCheque, MaxPartes)}

InitCheque ==
  /\ texto \in EntradasCheque
  /\ p \in 0..(MaxPaginas - 1)
  /\ resultado = Pendiente
  /\ traza = SinTraza
  /\ SinDocumento

\* extraer_numero_cheque(&texto, p); traza keeps the rule that returned
LlamarCheque ==
  /\ resultado = Pendiente
  /\ resultado' = extraer_numero_cheque(texto, p)
  /\ traza' = [fn |-> "cheque", regla |-> SalidaCheque(texto, p).regla]
  /\ UNCHANGED <<doc, estado, p, lista_datos, origen, texto>>

NextCheque == LlamarCheque

SpecCheque == InitCheque /\ [][NextCheque]_vars

----------------------------------------------------------------------------
(* extraer_expediente_y_año called on its own *)

MaxRelleno == 18

MarcasExpediente ==
  {<<"E", "x", "p", "e", "d", "i", "e", "n", "t", "e", " ">>,
   <<"E", "x", "p", "t", "e", ".", " ">>,
   <<"e", "x", "p", "-">>,
   <<"E", "X", "P", ".">>,
   <<"E", "x", "p", " ">>,
   <<"E", "J", "F", "-">>,
   <<>>}

NumerosExpediente ==
  {<<"1", "2", "3">>, <<"1", "2", "3", "4">>}

AniosExpediente ==
  {<<"1", "9", "8", "9">>, <<"1", "9", "9", "0">>, <<"2", "0", "2", "0">>,
   <<"2", "0", "2", "5">>, <<"2", "0", "2", "6">>, <<"2", "0", "2", DigitoArabe>>}

\* <marker> <number> <separator> <year>, letters before or after, an ending
EntradasExpediente ==
  {m \o Repetir("A", r[1]) \o n \o <<sep>> \o y \o Repetir("A", r[2]) \o fin :
     m \in MarcasExpediente,
     r \in {<<a, d>> \in (0..MaxRelleno) \X (0..MaxRelleno) : a = 0 \/ d = 0},
     n \in NumerosExpediente,
     sep \in {"/", "-"},
     y \in AniosExpediente,
     fin \in {<<",">>, <<".", "-", ",">>, <<>>}}


InitExpediente ==
  /\ texto \in EntradasExpediente
  /\ p \in 0..(MaxPaginas - 1)
  /\ resultado = Pendiente
  /\ traza = SinTraza
  /\ SinDocumento

\* extraer_expediente_y_año(&texto, p); traza keeps the local expediente
\* after the pattern search, after the cut and after the trimming
LlamarExpediente ==
  /\ resultado = Pendiente
  /\ resultado' = extraer_expediente_y_anio(texto, p)
  /\ traza' = LET b == BuscarExpediente(texto)
              IN  [fn |-> "expediente",
                   ok |-> b.ok,
                   patron |-> b.patron,
                   coincidencia |-> QuitarEXP(b),
                   acortado |-> Acortar(QuitarEXP(b)),
                   recortado |-> Recortar(Acortar(QuitarEXP(b)))]
  /\ UNCHANGED <<doc, estado, p, lista_datos, origen, texto>>

NextExpediente == LlamarExpediente

SpecExpediente == InitExpediente /\ [][NextExpediente]_vars

----------------------------------------------------------------------------
(* Properties of extraer_monto *)

UnMillon == <<"1", "2", "3", "4", "5", "6", "7">>

MilConDecimales == <<"1", ",", "2", "3", "4", ".", "5", "6">>

\* a thousands-grouped amount: one to three ASCII digits, then one or more
\* groups of a separator ('.' or ',') and exactly three ASCII digits
EsAgrupado(m) ==
  LET S == {i \in DOMAIN m : m[i] \in {".", ","}}
  IN  /\ S # {}
      /\ \A i \in DOMAIN m \ S : is_ascii_digit(m[i])
      /\ Min(S) \in 2..4
      /\ \A i \in S : /\ i + 3 <= Len(m)
                      /\ {i + 1, i + 2, i + 3} \cap S = {}
                      /\ (i + 3 = Len(m) \/ i + 4 \in S)

\* the cleaned amount falls in the last branch as the claim describes it
RamaEnteroSegunC4(m) ==
  /\ Len(m) >= 3
  /\ m[Len(m) - 2] # "."
  /\ ~(m[Len(m) - 2] = "," /\ Len(SelectSeq(m, LAMBDA c : c = ",")) > 1)

\* C4: in the last branch a thousands-grouped amount comes out as digits
\* only, whichever separator groups it: "($1.234.567)" and "($1,234,567)"
\* both give "1234567".
C4_EnteroConMiles ==
  resultado # Pendiente =>
    /\ (traza.ok /\ RamaEnteroSegunC4(traza.monto) /\ EsAgrupado(traza.monto))
         => SoloAscii(resultado)
    /\ texto = <<"(", "$", "1", ".", "2", "3", "4", ".", "5", "6", "7", ")">>
         => resultado = UnMillon
    /\ texto = <<"(", "$", "1", ",", "2", "3", "4", ",", "5", "6", "7", ")">>
         => resultado = UnMillon

\* the number of spaces that follow the opening parenthesis of the text
EspaciosTrasParen(t) == FinEspacios(t, 2) - 2

\* the text is ( <spaces> $1,234.56)
EsMilConDecimales(t) ==
  t = <<"(">> \o Repetir(" ", EspaciosTrasParen(t)) \o <<"$">> \o MilConDecimales \o <<")">>

\* C5 as stated: any stray whitespace between the parenthesis and the dollar
\* sign is tolerated; "(  $1,234.56)" gives "1234.56".
C5_ToleraEspacios ==
  (resultado # Pendiente /\ EsMilConDecimales(texto))
    => resultado = <<"1", "2", "3", "4", ".", "5", "6">>

\* C5 amended: exactly one space between the parenthesis and the dollar sign
\* is tolerated: "($1,234.56)" and "( $1,234.56)" give "1234.56"; a text
\* whose only parenthesized amount has two or more spaces there, as
\* "(  $1,234.56)", gets the sentinel.
C5_ToleraUnEspacio ==
  resultado # Pendiente =>
    /\ (EsMilConDecimales(texto) /\ EspaciosTrasParen(texto) <= 1)
         => resultado = <<"1", "2", "3", "4", ".", "5", "6">>
    /\ EspaciosTrasParen(texto) >= 2
         => (~traza.ok /\ resultado = to_string(p + 1))

\* "(  $1,234.56)" was given and the sentinel came back
C5_Testigo ==
  /\ texto = <<"(", " ", " ", "$">> \o MilConDecimales \o <<")">>
  /\ resultado = to_string(p + 1)

----------------------------------------------------------------------------
(* Properties of extraer_numero_cheque *)

\* the digit run the pattern <lit>(\d+) captures in the stripped text
Captura(lit) == CapturaNumero(TextoLimpio(texto), lit)

\* the prefix of the INTERNO: rule
PrefijoInterno == IF contains(texto, MarcaMEP) THEN PrefijoMEP ELSE PrefijoITB

\* the number a string of ASCII digits denotes, printed in decimal
ValorDecimal(d) == to_string(ValorDe(d))

\* every digit run captured after a marker is made of ASCII digits
CapturasAscii ==
  \A lit \in {ChequeNro, ChequeNGrado, ItbN, Interno} : SoloAscii(Captura(lit).cap)

\* C6 as stated: when the INTERNO: rule applies with more than 4 captured
\* (ASCII) digits, the result is the prefix (MEP with "M.E.P." in the text, else
\* ITB) followed by exactly the captured digits without the last 4, leading
\* zeros included.
C6_InternoConCeros ==
  (/\ resultado # Pendiente
   /\ traza.regla \notin {"cheque", "itb"}
   /\ Captura(Interno).ok
   /\ SoloAscii(Captura(Interno).cap)
   /\ Len(Captura(Interno).cap) > SufijoInterno)
    => resultado = PrefijoInterno
                     \o SubSeq(Captura(Interno).cap, 1, Len(Captura(Interno).cap) - SufijoInterno)

\* C6 amended: when the INTERNO: rule applies with a captured run of more
\* than 4 ASCII digits, the result is the prefix followed by the decimal
\* value of the captured digits without the last 4, so without leading
\* zeros: "INTERNO:000012349999" with "M.E.P." gives "MEP 1234".
C6_InternoValorDecimal ==
  (/\ resultado # Pendiente
   /\ traza.regla \notin {"cheque", "itb"}
   /\ Captura(Interno).ok
   /\ SoloAscii(Captura(Interno).cap)
   /\ Len(Captura(Interno).cap) > SufijoInterno)
    => resultado = PrefijoInterno
                     \o ValorDecimal(SubSeq(Captura(Interno).cap, 1,
                                            Len(Captura(Interno).cap) - SufijoInterno))

\* "INTERNO:000012349999" with "M.E.P." in the text came out as "MEP 1234"
C6_Testigo ==
  /\ resultado # Pendiente
  /\ contains(texto, Interno \o <<"0", "0", "0", "0", "1", "2", "3", "4", "9", "9", "9", "9">>)
  /\ contains(texto, MarcaMEP)
  /\ traza.regla = "interno"
  /\ resultado = <<"M", "E", "P", " ", "1", "2", "3", "4">>

\* the Cheque pattern lit captured at least 8 digits
Largo8(lit) == Captura(lit).ok /\ Len(Captura(lit).cap) >= DigitosCheque

\* the priority order of the rules, fmt being the way the Cheque rule
\* writes the first 8 digits it captured
OrdenDeReglas(fmt(_)) ==
  /\ Largo8(ChequeNro)
       => resultado = PrefijoCH \o fmt(SubSeq(Captura(ChequeNro).cap, 1, DigitosCheque))
  /\ (~Largo8(ChequeNro) /\ Largo8(ChequeNGrado))
       => resultado = PrefijoCH \o fmt(SubSeq(Captura(ChequeNGrado).cap, 1, DigitosCheque))
  /\ (~Largo8(ChequeNro) /\ ~Largo8(ChequeNGrado))
       => /\ traza.regla # "cheque"
          /\ Captura(ItbN).ok => traza.regla = "itb"
  /\ traza.regla = "itb" => Captura(ItbN).ok
  /\ traza.regla = "interno"
       => /\ ~Captura(ItbN).ok
          /\ Captura(Interno).ok
          /\ Len(Captura(Interno).cap) > SufijoInterno
  /\ traza.regla = "ninguna"
       <=> /\ ~Largo8(ChequeNro)
           /\ ~Largo8(ChequeNGrado)
           /\ ~Captura(ItbN).ok
           /\ ~(Captura(Interno).ok /\ Len(Captura(Interno).cap) > SufijoInterno)
  /\ traza.regla = "ninguna" <=> resultado = to_string(p + 1)

Literal(d) == d

\* C10 as stated, for captured runs of ASCII digits: the rules apply in the order Cheque, ITBNº:, INTERNO:
\* wherever the markers stand; a Cheque match of at least 8 digits always
\* gives "CH " plus its first 8 digits; with fewer than 8 digits the ITBNº:
\* rule is next, then INTERNO:, which gives a result only when ITBNº: gave
\* none; the sentinel comes back only when no rule gives a value.
C10_OrdenPrimerosOcho ==
  (resultado # Pendiente /\ CapturasAscii) => OrdenDeReglas(Literal)

\* C10 amended: as C10 for texts whose captured digit runs are ASCII digits,
\* except that a Cheque match of at least 8 digits gives "CH " plus the
\* decimal value of its first 8 digits, so without their leading zeros.
C10_OrdenValorDecimal ==
  (resultado # Pendiente /\ CapturasAscii) => OrdenDeReglas(ValorDecimal)

\* a Cheque number with leading zeros stands after an ITBNº: number and the
\* Cheque rule answered with the value of its first 8 digits
C10_Testigo ==
  /\ resultado # Pendiente
  /\ Largo8(ChequeNro)
  /\ Captura(ItbN).ok
  /\ Head(Captura(ChequeNro).cap) = "0"
  /\ Head(texto) = "I"
  /\ traza.regla = "cheque"
  /\ resultado = <<"C", "H", " ", "1", "2", "3", "4", "5", "6">>

----------------------------------------------------------------------------
(* Properties of extraer_expediente_y_año *)

\* the last 4 characters of t are ASCII digits of a number in [1990, 2025]
TerminaEnAnio(t) ==
  /\ Len(t) >= 4
  /\ SoloAscii(SubSeq(t, Len(t) - 3, Len(t)))
  /\ ValorDe(SubSeq(t, Len(t) - 3, Len(t))) \in 1990..2025

\* C8: the year returned is " " or the 4 digits of a year in [1990, 2025];
\* it is a year exactly when a pattern matched and the last 4 characters of
\* the trimmed match are such a year; then, the trimmed match having at
\* least 5 characters, these 4 and the character before them leave the case
\* reference; otherwise the case reference keeps its trimmed form (which the
\* cleaning steps then canonicalise).  "Expediente 1234/2020," gives
\* "EXP-1234" and "2020".
C8_AnioYExpediente ==
  resultado # Pendiente =>
    LET exp == resultado[1]
        anio == resultado[2]
        t == traza.recortado
        esAnio == traza.ok /\ TerminaEnAnio(t)
    IN  /\ anio = <<" ">> \/ (Len(anio) = 4 /\ TerminaEnAnio(anio))
        /\ anio # <<" ">> <=> esAnio
        /\ esAnio => anio = SubSeq(t, Len(t) - 3, Len(t))
        /\ (esAnio /\ Len(t) >= 5) => exp = Prefijar(Limpiar(SubSeq(t, 1, Len(t) - 5)))
        /\ (traza.ok /\ ~(esAnio /\ Len(t) >= 5)) => exp = Prefijar(Limpiar(t))
        /\ texto = <<"E", "x", "p", "e", "d", "i", "e", "n", "t", "e", " ",
                     "1", "2", "3", "4", "/", "2", "0", "2", "0", ",">>
             => resultado = <<<<"E", "X", "P", "-", "1", "2", "3", "4">>,
                              <<"2", "0", "2", "0">>>>

\* "Expediente 1234/2020," was given and "EXP-1234", "2020" came back
C8_Testigo ==
  /\ texto = <<"E", "x", "p", "e", "d", "i", "e", "n", "t", "e", " ",
               "1", "2", "3", "4", "/", "2", "0", "2", "0", ",">>
  /\ resultado = <<<<"E", "X", "P", "-", "1", "2", "3", "4">>, <<"2", "0", "2", "0">>>>

\* C9 as stated: the string that enters the trailing trimming has at most 25
\* characters; a match of 26 to 30 characters is cut to 25 like a longer one.
C9_CortaDesde26 ==
  (resultado # Pendiente /\ traza.ok) => Len(traza.acortado) <= 25

\* C9 amended: a match is cut to its first 25 characters only when it has
\* more than 30 characters; a match of 26 to 30 characters enters the
\* trailing trimming uncut, so the string that enters it has at most 30
\* characters.
C9_CortaDesde31 ==
  (resultado # Pendiente /\ traza.ok) =>
    /\ Len(traza.coincidencia) > 30 => traza.acortado = SubSeq(traza.coincidencia, 1, 25)
    /\ Len(traza.coincidencia) <= 30 => traza.acortado = traza.coincidencia
    /\ Len(traza.acortado) <= 30

\* a match of 26 to 30 characters went into the trimming as it was
C9_Testigo ==
  /\ resultado # Pendiente
  /\ traza.ok
  /\ Len(traza.coincidencia) \in 26..30
  /\ traza.acortado = traza.coincidencia

----------------------------------------------------------------------------
(* procesar_pdf on pages that carry a payment identifier *)

\* "Cheque N° " as it stands in the raw text of a page
ChequeNGradoEscrito == <<"C", "h", "e", "q", "u", "e", " ", "N", Grado, " ">>

\* "ITB Nº: " as it stands in the raw text of a page
ItbNEscrito == <<"I", "T", "B", " ", "N", Ordinal, ":", " ">>

\* Cheque N° 12345678
FragmentoChequeGrado ==
  ChequeNGradoEscrito \o <<"1", "2", "3", "4", "5", "6", "7", "8", " ">>

\* ITB Nº: 4321
FragmentoItbOrdinal == ItbNEscrito \o <<"4", "3", "2", "1", " ">>

\* the page of FragmentoChequeGrado has one character more than the others:
\* its '°' is gone after Sanear, and LargoMinimoPagina bytes are left
PaginasSaneo ==
  {Pagina(f, LargoMinimoPagina, 0, 0) :
     f \in {FragmentoItbOrdinal, FragmentoCompleto, FragmentoMontoAncho}}
    \cup {Pagina(FragmentoChequeGrado, LargoMinimoPagina + 1, 0, 0),
          Pagina(<<>>, LargoMinimoPagina - 1, 0, 0),
          PaginaFallida}

DocumentosSaneo == UNION {[1..n -> PaginasSaneo] : n \in 1..MaxPaginas}

InitSaneo ==
  /\ doc \in DocumentosSaneo
  /\ estado = "inicio"
  /\ p = 0
  /\ lista_datos = <<>>
  /\ origen = <<>>
  /\ SinLlamada

SpecSaneo == InitSaneo /\ [][Next]_vars

\* the raw text of the page record j of lista_datos was built from
CrudoDe(j) == doc[origen[j] + 1].raw

\* C11: every payment-id pattern stays matchable on the sanitized text: the
\* characters the patterns rely on ('°' of ChequeN°, 'º' of ITBNº:) are
\* still in the text the extractor gets, and an accepted page whose raw text
\* has "Cheque N° " followed by at least 8 digits (and no ChequeNro) gets the
\* cheque field "CH " plus the first 8 of those digits.
C11_PatronesTrasSaneo ==
  \A j \in DOMAIN lista_datos :
    /\ \A c \in {Grado, Ordinal} : c \in Rango(CrudoDe(j)) => c \in Rango(TextoDe(j))
    /\ LET n == CapturaNumero(CrudoDe(j), ChequeNGradoEscrito)
       IN  (/\ n.ok
            /\ SoloAscii(n.cap)
            /\ Len(n.cap) >= DigitosCheque
            /\ ~contains(TextoLimpio(CrudoDe(j)), ChequeNro))
             => lista_datos[j].cheque = PrefijoCH \o SubSeq(n.cap, 1, DigitosCheque)

====
